---- MODULE Spec2Model ----
(***************************************************************************)
(* Slot traversal of torch::jit::Module (slot_iterator_impl,               *)
(* slot_list_impl and the traversal policies of module.h).                 *)
(*                                                                         *)
(* A module tree is a finite map from object ids to the object's slots.    *)
(* Object 1 is the root the view is taken of.  A slot carries what the     *)
(* class type records for it (name, declared type, is_parameter) and the   *)
(* IValue the object holds in it.                                          *)
(***************************************************************************)
EXTENDS Integers, Sequences, FiniteSets, TLC

\* ------------------------------------------------------------------ bounds
MaxObjs == 3      \* objects (containers) of a tree, the root included
MaxSlots == 2     \* slots of one container
MaxTotalSlots == 3 \* slots of all containers of a tree together
MaxObjsAdmitted == 2 \* objects of a tree that holds unchecked slot values
MaxPasses == 2    \* full iterations a client runs over one view
MaxObjsIters == 2 \* objects of a tree two iterators run over side by side
MaxSlotsIters == 2 \* slots of all containers of such a tree together
MaxEndAdvances == 2 \* advances applied to an iterator that is at the end
MaxThreads == 2   \* threads that call size() on one view
MaxCalls == 3     \* size() calls of all threads together
MaxSlotsThreads == 0 \* slots of all containers of the tree under such a view
MaxRegs == 1      \* registration calls made on a tree
MaxSlotsRegister == 2 \* slots of all containers of a tree before the registrations
MaxTraversals == 1 \* whole loops the client runs between registrations
MaxSlotsStale == 1 \* slots of all containers of a tree whose view outlives a registration
MaxLooks == 2 \* size() calls and loops made on such a view, together
MaxMaybeOwned == 3 \* MaybeOwned objects a client holds at a time
MaxOriginals == 1 \* T objects of the client that a MaybeOwned can borrow
MaxValues == 1    \* values of a T, next to the moved-from one

\* ------------------------------------------------------------- the object graph
\* IValues: a tensor, None, an int, or an object (module) handle.  ref tells two
\* tensors, or two objects, apart (handles compare by identity).
TensorRef(o, i) == 10 * o + i
TensorIValue(r) == [tag |-> "Tensor", ref |-> r]
NoneIValue == [tag |-> "None", ref |-> 0]
IntIValue(r) == [tag |-> "Int", ref |-> r]
ObjectIValue(o) == [tag |-> "Object", ref |-> o]

\* Slot names of a class: distinct within one container, and the same name may
\* occur in two containers.
Names == <<"a", "b", "c", "d", "e", "f">>
NameOf(o, i) == Names[((2 * (o - 1) + i) % Len(Names)) + 1]

\* The slots a registration can leave behind, by the registering call:
\*   P  register_parameter(name, tensor, is_buffer = false)
\*   B  register_buffer(name, tensor)
\*   O  register_attribute(name, IntType, int)
\*   N  register_attribute(name, Optional[Tensor], None, is_param = true)
\*   M  register_module(name, module)
\* register_attribute stores the value it is given without comparing it with
\* the type it is given, so a tensor-typed slot can hold a value that is no
\* tensor:
\*   X  register_attribute(name, TensorType, None)
\*   Y  register_attribute(name, TensorType, None, is_param = true)
LeafKinds == {"P", "B", "O", "N"}
UncheckedKinds == {"X", "Y"}
MkSlot(o, i, kind) ==
  CASE kind.k = "P" -> [name |-> NameOf(o, i), type |-> "Tensor", is_param |-> TRUE,
                        val |-> TensorIValue(TensorRef(o, i))]
    [] kind.k = "B" -> [name |-> NameOf(o, i), type |-> "Tensor", is_param |-> FALSE,
                        val |-> TensorIValue(TensorRef(o, i))]
    [] kind.k = "O" -> [name |-> NameOf(o, i), type |-> "Int", is_param |-> FALSE,
                        val |-> IntIValue(TensorRef(o, i))]
    [] kind.k = "N" -> [name |-> NameOf(o, i), type |-> "OptTensor", is_param |-> TRUE,
                        val |-> NoneIValue]
    [] kind.k = "X" -> [name |-> NameOf(o, i), type |-> "Tensor", is_param |-> FALSE,
                        val |-> NoneIValue]
    [] kind.k = "Y" -> [name |-> NameOf(o, i), type |-> "Tensor", is_param |-> TRUE,
                        val |-> NoneIValue]
    [] kind.k = "M" -> [name |-> NameOf(o, i), type |-> "Module", is_param |-> FALSE,
                        val |-> ObjectIValue(kind.c)]

\* Kinds a slot of object o may have in a graph of n objects: a module slot
\* holds an object with a larger id, so the graph is acyclic.  An object may be
\* registered in two slots (a shared submodule).
KindsOf(leaf, o, n) ==
  {[k |-> l, c |-> 0] : l \in leaf} \cup {[k |-> "M", c |-> c] : c \in (o + 1)..n}
BuildTree(ks, n) == [o \in 1..n |-> [j \in 1..Len(ks[o]) |-> MkSlot(o, j - 1, ks[o][j])]]

\* The objects the module slots of a kind listing hold.
HeldBy(s) == {s[j].c : j \in {i \in 1..Len(s) : s[i].k = "M"}}

\* The slots of objects o..n, budget slots at most between them, where every
\* object other than the root is held by a slot of an object before it (held
\* are the objects the slots of 1..o-1 hold).
RECURSIVE KindTrees(_, _, _, _, _)
KindTrees(leaf, o, n, budget, held) ==
  IF o > n THEN {<<>>}
  ELSE IF o > 1 /\ o \notin held THEN {}
  ELSE UNION {{<<s>> \o rest :
                 rest \in KindTrees(leaf, o + 1, n, budget - Len(s), held \cup HeldBy(s))} :
              s \in UNION {[1..len -> KindsOf(leaf, o, n)] :
                             len \in 0..(IF budget < MaxSlots THEN budget ELSE MaxSlots)}}

\* The trees of at most maxObjs objects with slots of the given leaf kinds,
\* as kind listings: <<n, ks>> stands for BuildTree(ks, n).
TreesOver(leaf, maxObjs) ==
  UNION {{<<n, ks>> : ks \in KindTrees(leaf, 1, n, MaxTotalSlots, {})} : n \in 1..maxObjs}

\* Trees whose slot values all conform to the declared types.
Trees == TreesOver(LeafKinds, MaxObjs)

\* Trees the registration calls admit, unchecked values included.
TreesAdmitted == TreesOver(LeafKinds \cup UncheckedKinds, MaxObjsAdmitted)

Policies == {"Module", "Parameter", "Buffer", "Attribute"}

\* The object the views are taken of.
Root == 1

VARIABLES
  tree,     \* object id -> sequence of slots (ClassType attributes + Object slots)
  view,     \* the slot_list_impl under study
  it,       \* the client's slot_iterator_impl
  pc,       \* client position: "view" no loop running, "at" loop test, "got" after *it
  out,      \* what the running loop has dereferenced so far
  runs,     \* the finished loops: [elems, ok, cached]; cached tells whether the
            \* view's size cache was filled while the loop ran
  sizeRet,  \* outcome of the last size() call: <<>> or <<[ok, n]>>
  iters,    \* iterators that run side by side, each with the view it came from
  thr,      \* threads inside size() of the one view, each with its position
  walk,     \* one iterator seen from inside: its stack between two calls of next()
  reg,      \* the registration calls made on the tree and how each ended
  mo        \* MaybeOwned<T> objects and the T objects they borrow

vars == <<tree, view, it, pc, out, runs, sizeRet, iters, thr, walk, reg, mo>>

\* What the single client of one view leaves alone.
otherVars == <<iters, thr, walk, reg, mo>>

\* The value of a variable no step of a specification touches.
Unused == <<>>

\* ------------------------------------------------- ClassType / Object interface
numAttributes(o) == Len(tree[o])
getAttribute(o, i) == tree[o][i + 1].type
getAttributeName(o, i) == tree[o][i + 1].name
is_parameter(o, i) == tree[o][i + 1].is_param
getSlot(o, i) == tree[o][i + 1].val
is_module(t) == t = "Module"
isSubtypeOfTensor(t) == t = "Tensor"
isTensor(v) == v.tag = "Tensor"
isObject(v) == v.tag = "Object"

\* ----------------------------------------------------------------- policies
ModulePolicy_valid(o, i, v) == is_module(getAttribute(o, i))
ParameterPolicy_valid(o, i, v) == is_parameter(o, i) /\ isTensor(v)
\* (variant: every tensor-typed slot counts as a buffer)
BufferPolicy_valid_IgnoreParam(o, i, v) == isSubtypeOfTensor(getAttribute(o, i))

BufferPolicy_valid(o, i, v) == isSubtypeOfTensor(getAttribute(o, i)) /\ ~is_parameter(o, i)
\* (variant: the attribute view leaves module-typed slots out)
AttributePolicy_valid_NoModules(o, i, v) == ~is_module(getAttribute(o, i))

AttributePolicy_valid(o, i, v) == TRUE

Policy_valid(P, o, i, v) ==
  CASE P = "Module" -> ModulePolicy_valid(o, i, v)
    [] P = "Parameter" -> ParameterPolicy_valid(o, i, v)
    [] P = "Buffer" -> BufferPolicy_valid(o, i, v)
    [] P = "Attribute" -> AttributePolicy_valid(o, i, v)

all_slots(P) == P = "Attribute"

\* toObject() / toTensor() assert the tag of the IValue: create raises where
\* the assertion fails.
Policy_create_ok(P, v) ==
  CASE P = "Module" -> isObject(v)
    [] P = "Parameter" -> isTensor(v)
    [] P = "Buffer" -> isTensor(v)
    [] P = "Attribute" -> TRUE

Policy_create(P, cursors, v) == v

nameFragment(f) == getAttributeName(f.module_, f.i_)

RECURSIVE JoinFrom(_, _)
JoinFrom(cursors, i) ==
  IF i > Len(cursors) THEN ""
  ELSE (IF i > 1 THEN "." ELSE "") \o nameFragment(cursors[i]) \o JoinFrom(cursors, i + 1)

\* (variant: the name is the last fragment alone)
NamedPolicy_create_LastFragment(P, cursors, v) ==
  LET name == IF cursors[Len(cursors)].i_ = -1 THEN ""
              ELSE nameFragment(cursors[Len(cursors)])
  IN [name |-> name, value |-> Policy_create(P, cursors, v)]

\* (variant: the fragments are joined without the separator)
NamedPolicy_create_NoDot(P, cursors, v) ==
  LET RECURSIVE Cat(_)
      Cat(i) == IF i > Len(cursors) THEN "" ELSE nameFragment(cursors[i]) \o Cat(i + 1)
      name == IF Len(cursors) = 1
              THEN (IF cursors[Len(cursors)].i_ = -1 THEN ""
                    ELSE nameFragment(cursors[Len(cursors)]))
              ELSE Cat(1)
  IN [name |-> name, value |-> Policy_create(P, cursors, v)]

NamedPolicy_create(P, cursors, v) ==
  LET name == IF Len(cursors) = 1
              THEN (IF cursors[Len(cursors)].i_ = -1 THEN ""
                    ELSE nameFragment(cursors[Len(cursors)]))
              ELSE JoinFrom(cursors, 1)
  IN [name |-> name, value |-> Policy_create(P, cursors, v)]

create(P, named, cursors, v) ==
  IF named THEN NamedPolicy_create(P, cursors, v) ELSE Policy_create(P, cursors, v)

\* ------------------------------------------------------- slot_iterator_impl
SlotCursor(m, i) == [module_ |-> m, i_ |-> i]
top(cursors) == cursors[Len(cursors)]
return_module(cursors) == top(cursors).i_ = -1
cur(cursors) ==
  IF return_module(cursors) THEN ObjectIValue(top(cursors).module_)
  ELSE getSlot(top(cursors).module_, top(cursors).i_)
toModule(v) == v.ref
pop_back(cursors) == SubSeq(cursors, 1, Len(cursors) - 1)
IncTop(cursors) == [cursors EXCEPT ![Len(cursors)].i_ = @ + 1]

\* (variant: the frame of a nested module starts at its second slot)
next_PushAtOne(cursors, recurse) ==
  IF return_module(cursors) THEN IncTop(cursors)
  ELSE IF top(cursors).i_ >= numAttributes(top(cursors).module_)
  THEN LET popped == pop_back(cursors)
       IN IF popped # <<>> THEN IncTop(popped) ELSE popped
  ELSE IF recurse /\ is_module(getAttribute(top(cursors).module_, top(cursors).i_))
  THEN Append(cursors, SlotCursor(toModule(cur(cursors)), 1))
  ELSE IncTop(cursors)

\* (variant: a nested module is entered through a sentinel frame of its own)
next_PushSentinel(cursors, recurse) ==
  IF return_module(cursors) THEN IncTop(cursors)
  ELSE IF top(cursors).i_ >= numAttributes(top(cursors).module_)
  THEN LET popped == pop_back(cursors)
       IN IF popped # <<>> THEN IncTop(popped) ELSE popped
  ELSE IF recurse /\ is_module(getAttribute(top(cursors).module_, top(cursors).i_))
  THEN Append(cursors, SlotCursor(toModule(cur(cursors)), -1))
  ELSE IncTop(cursors)

\* (variant: module-typed slots are entered whatever the recurse flag)
next_AlwaysDescend(cursors, recurse) ==
  IF return_module(cursors) THEN IncTop(cursors)
  ELSE IF top(cursors).i_ >= numAttributes(top(cursors).module_)
  THEN LET popped == pop_back(cursors)
       IN IF popped # <<>> THEN IncTop(popped) ELSE popped
  ELSE IF is_module(getAttribute(top(cursors).module_, top(cursors).i_))
  THEN Append(cursors, SlotCursor(toModule(cur(cursors)), 0))
  ELSE IncTop(cursors)

next(cursors, recurse) ==
  IF return_module(cursors) THEN IncTop(cursors)
  ELSE IF top(cursors).i_ >= numAttributes(top(cursors).module_)
  THEN LET popped == pop_back(cursors)
       IN IF popped # <<>> THEN IncTop(popped) ELSE popped
  ELSE IF recurse /\ is_module(getAttribute(top(cursors).module_, top(cursors).i_))
  THEN Append(cursors, SlotCursor(toModule(cur(cursors)), 0))
  ELSE IncTop(cursors)

valid(P, cursors) ==
  /\ top(cursors).i_ < numAttributes(top(cursors).module_)
  /\ Policy_valid(P, top(cursors).module_, top(cursors).i_,
                  getSlot(top(cursors).module_, top(cursors).i_))

RECURSIVE while_not_valid_next(_, _, _)
while_not_valid_next(P, cursors, recurse) ==
  IF cursors # <<>> /\ ~return_module(cursors) /\ ~valid(P, cursors)
  THEN while_not_valid_next(P, next(cursors, recurse), recurse)
  ELSE cursors

\* (variant: no test for the empty stack; the advance finds a frame of the root)
next_valid_Unguarded(P, cursors, recurse) ==
  while_not_valid_next(
    P, next(IF cursors = <<>> THEN <<SlotCursor(Root, -1)>> ELSE cursors, recurse), recurse)

next_valid(P, cursors, recurse) ==
  IF cursors = <<>> THEN cursors
  ELSE while_not_valid_next(P, next(cursors, recurse), recurse)

\* (variant: the first cursor is the root sentinel whatever return_module says)
slot_iterator_impl_AlwaysRoot(P, named, root, recurse, ret_module) ==
  [policy |-> P, named |-> named, recurse_ |-> recurse,
   cursors_ |-> while_not_valid_next(P, <<SlotCursor(root, -1)>>, recurse)]

\* (variant: the first cursor is slot 0 whatever return_module says)
slot_iterator_impl_NeverRoot(P, named, root, recurse, ret_module) ==
  [policy |-> P, named |-> named, recurse_ |-> recurse,
   cursors_ |-> while_not_valid_next(P, <<SlotCursor(root, 0)>>, recurse)]

\* slot_iterator_impl(root, recurse, return_module)
slot_iterator_impl(P, named, root, recurse, ret_module) ==
  [policy |-> P, named |-> named, recurse_ |-> recurse,
   cursors_ |-> while_not_valid_next(
                  P, <<SlotCursor(root, IF ret_module THEN -1 ELSE 0)>>, recurse)]

\* slot_iterator_impl(): empty cursors_, the end of every iteration
EndIterator(P, named) == [policy |-> P, named |-> named, recurse_ |-> FALSE, cursors_ |-> <<>>]

\* (variant: the stacks themselves are compared)
NotEqual_ByCursors(a, b) == a.cursors_ # b.cursors_

\* operator!=
NotEqual(a, b) == (a.cursors_ = <<>>) # (b.cursors_ = <<>>)

\* (variant: the cursor stack is one static shared by every iterator)
Increment_SharedCursors(i) ==
  [i EXCEPT !.cursors_ = next_valid(i.policy, iters[1].it.cursors_, i.recurse_)]

\* operator++()
Increment(i) == [i EXCEPT !.cursors_ = next_valid(i.policy, i.cursors_, i.recurse_)]

\* operator++(int): the copy taken before the advance, and the iterator after it
PostIncrement(i) == [old |-> i, it |-> Increment(i)]

DerefOk(i) == Policy_create_ok(i.policy, cur(i.cursors_))
Deref(i) == create(i.policy, i.named, i.cursors_, cur(i.cursors_))

\* ------------------------------------------------------------ slot_list_impl
\* (variant: the view keeps its cursor, so a second begin() is already at the end)
begin_SinglePass(v) ==
  IF runs # <<>> THEN EndIterator(v.policy, v.named)
  ELSE slot_iterator_impl(v.policy, v.named, v.module_, v.recurse_, v.return_module_)

begin(v) == slot_iterator_impl(v.policy, v.named, v.module_, v.recurse_, v.return_module_)
end(v) == EndIterator(v.policy, v.named)

num_slots(o) == numAttributes(o)

\* (variant: the constant-time size is taken for recursive views as well)
slot_list_impl_AnyRecurse(P, named, root, recurse, ret_module) ==
  [policy |-> P, named |-> named, module_ |-> root, recurse_ |-> recurse,
   return_module_ |-> ret_module,
   size_ |-> IF ~ret_module /\ all_slots(P) THEN <<num_slots(root)>> ELSE <<>>]

slot_list_impl(P, named, root, recurse, ret_module) ==
  [policy |-> P, named |-> named, module_ |-> root, recurse_ |-> recurse,
   return_module_ |-> ret_module,
   size_ |-> IF ~recurse /\ ~ret_module /\ all_slots(P) THEN <<num_slots(root)>> ELSE <<>>]

\* The loop of size(): for (const value_type& s : *this) ++*size_.  Each turn
\* dereferences the iterator; a raising create leaves the loop with the count
\* reached so far.
RECURSIVE CountLoop(_, _, _)
CountLoop(v, i, n) ==
  IF ~NotEqual(i, end(v)) THEN [ok |-> TRUE, n |-> n]
  ELSE IF ~DerefOk(i) THEN [ok |-> FALSE, n |-> n]
  ELSE CountLoop(v, Increment(i), n + 1)

\* (variant: size() counts again on every call)
size_Recount(v) ==
  LET r == CountLoop(v, begin(v), 0)
  IN [ret |-> r, size_ |-> <<r.n>>]

\* size(): outcome and the cache it leaves
size(v) ==
  IF v.size_ = <<>>
  THEN LET r == CountLoop(v, begin(v), 0)
       IN [ret |-> r, size_ |-> <<r.n>>]
  ELSE [ret |-> [ok |-> TRUE, n |-> v.size_[1]], size_ |-> v.size_]

\* --------------------------------------------------------------- the client
InitOver(trees) ==
  /\ \E t \in trees : tree = BuildTree(t[2], t[1])
  /\ \E P \in Policies, named \in BOOLEAN, recurse \in BOOLEAN, ret_module \in BOOLEAN :
       view = slot_list_impl(P, named, Root, recurse, ret_module)
  /\ it = end(view)
  /\ pc = "view"
  /\ out = <<>>
  /\ runs = <<>>
  /\ sizeRet = <<>>
  /\ iters = Unused /\ thr = Unused /\ walk = Unused /\ reg = Unused /\ mo = Unused

Init == InitOver(Trees)
InitAdmitted == InitOver(TreesAdmitted)

\* auto it = view.begin()
Begin ==
  /\ pc = "view"
  /\ Len(runs) < MaxPasses
  /\ it' = begin(view)
  /\ out' = <<>>
  /\ pc' = "at"
  /\ UNCHANGED <<tree, view, runs, sizeRet>>
  /\ UNCHANGED otherVars

\* *it at a position before end(); a raising create ends the loop
Dereference ==
  /\ pc = "at"
  /\ NotEqual(it, end(view))
  /\ IF DerefOk(it)
     THEN /\ out' = Append(out, [pos |-> it.cursors_, elem |-> Deref(it)])
          /\ pc' = "got"
          /\ UNCHANGED <<it, runs>>
     ELSE /\ runs' = Append(runs, [elems |-> out, ok |-> FALSE, cached |-> view.size_ # <<>>])
          /\ pc' = "view"
          /\ it' = end(view)
          /\ out' = <<>>
  /\ UNCHANGED <<tree, view, sizeRet>>
  /\ UNCHANGED otherVars

\* ++it
Advance ==
  /\ pc = "got"
  /\ it' = Increment(it)
  /\ pc' = "at"
  /\ UNCHANGED <<tree, view, out, runs, sizeRet>>
  /\ UNCHANGED otherVars

\* it != end() is false: the loop is over
LoopExit ==
  /\ pc = "at"
  /\ ~NotEqual(it, end(view))
  /\ runs' = Append(runs, [elems |-> out, ok |-> TRUE, cached |-> view.size_ # <<>>])
  /\ pc' = "view"
  /\ out' = <<>>
  /\ UNCHANGED <<tree, view, it, sizeRet>>
  /\ UNCHANGED otherVars

\* view.size(), called while no loop of the client is running
Size ==
  /\ pc = "view"
  /\ LET r == size(view)
     IN /\ view' = [view EXCEPT !.size_ = r.size_]
        /\ sizeRet' = <<r.ret>>
  /\ UNCHANGED <<tree, it, pc, out, runs>>
  /\ UNCHANGED otherVars

Next == Begin \/ Dereference \/ Advance \/ LoopExit \/ Size

Spec == Init /\ [][Next]_vars

\* The same client over every tree the registration calls admit.
SpecAdmitted == InitAdmitted /\ [][Next]_vars

\* =================================================================== claims
\* What the claims are stated with.

\* The element at place j of a finished or running loop, without the name a
\* Named policy adds.
ValueOf(e) == IF view.named THEN e.elem.value ELSE e.elem
Positions(elems) == [j \in 1..Len(elems) |-> elems[j].pos]

\* Depth-first pre-order listing of the slots below container o, each as the
\* path of cursors leading to it: prefix is the path to o, i the next slot.
RECURSIVE PreOrder(_, _, _, _)
PreOrder(prefix, o, i, recurse) ==
  IF i >= Len(tree[o]) THEN <<>>
  ELSE LET here == Append(prefix, [module_ |-> o, i_ |-> i])
           slot == tree[o][i + 1]
       IN <<here>>
          \o (IF recurse /\ slot.type = "Module"
              THEN PreOrder(here, slot.val.ref, 0, recurse) ELSE <<>>)
          \o PreOrder(prefix, o, i + 1, recurse)

AcceptedAt(P, pos) ==
  LET f == pos[Len(pos)]
  IN Policy_valid(P, f.module_, f.i_, tree[f.module_][f.i_ + 1].val)

Reference(P, recurse) ==
  SelectSeq(PreOrder(<<>>, Root, 0, recurse), LAMBDA pos : AcceptedAt(P, pos))

IsPrefix(s, t) == Len(s) <= Len(t) /\ SubSeq(t, 1, Len(s)) = s

\* Dereferencing the root sentinel succeeds: the policy yields modules or raw
\* values, or the view does not include the root.
RootYieldable(v) == ~v.return_module_ \/ v.policy \in {"Module", "Attribute"}

SizeAgreesWithRuns ==
  sizeRet # <<>> =>
    /\ sizeRet[1].ok
    /\ \A k \in 1..Len(runs) : runs[k].ok /\ sizeRet[1].n = Len(runs[k].elems)

\* C1 as stated: for every policy, recurse flag and include_root flag, size()
\* returns the number of elements a full iteration of the view produces.
C1_SizeEqualsCount_AsStated == SizeAgreesWithRuns

\* C1 (amended): for every policy with include_root = false, and for
\* ModulePolicy and AttributePolicy (plain or Named) with include_root = true,
\* every recurse flag and every tree, size() returns the number of elements a
\* full iteration of the view produces.
C1_SizeEqualsCount == RootYieldable(view) => SizeAgreesWithRuns

C1_Witness ==
  /\ view.policy = "Module" /\ view.recurse_ /\ view.return_module_
  /\ Len(runs) = 1 /\ runs[1].ok /\ Len(runs[1].elems) = 3
  /\ sizeRet = <<[ok |-> TRUE, n |-> 3]>>

\* C2: with include_root = false the positions at which the iterator stops
\* between begin() and end() are, in order, the slots of the depth-first
\* pre-order listing (the root's slots only when recurse = false, descending
\* into every module-typed slot when recurse = true) that Policy::valid accepts.
C2_StopsAreFilteredPreOrder ==
  ~view.return_module_ =>
    LET ref == Reference(view.policy, view.recurse_)
    IN /\ \A k \in 1..Len(runs) : runs[k].ok /\ Positions(runs[k].elems) = ref
       /\ pc # "view" =>
            /\ IsPrefix(Positions(out), ref)
            /\ pc = "at" => it.cursors_ = (IF Len(out) < Len(ref) THEN ref[Len(out) + 1]
                                           ELSE <<>>)
            /\ pc = "got" => it.cursors_ = out[Len(out)].pos

\* a recursive parameter view has yielded a parameter two modules down, below
\* module slots the parameter policy rejects
C2_Witness ==
  /\ view.policy = "Parameter" /\ view.recurse_ /\ ~view.return_module_
  /\ Len(runs) = 1 /\ runs[1].ok
  /\ \E j \in 1..Len(runs[1].elems) : Len(runs[1].elems[j].pos) = 3

\* No container is held by two slots: the graph is a tree.
IsTree ==
  \A o1, o2 \in DOMAIN tree : \A j1 \in 1..Len(tree[o1]) : \A j2 \in 1..Len(tree[o2]) :
    (tree[o1][j1].type = "Module" /\ tree[o2][j2].type = "Module"
       /\ tree[o1][j1].val.ref = tree[o2][j2].val.ref) => (o1 = o2 /\ j1 = j2)

RECURSIVE SlotsFrom(_)
SlotsFrom(o) == IF o \notin DOMAIN tree THEN 0 ELSE Len(tree[o]) + SlotsFrom(o + 1)
AllSlots == {[module_ |-> o, i_ |-> j - 1] : o \in DOMAIN tree, j \in 1..MaxSlots + 1}
              \cap {c \in [module_ : DOMAIN tree, i_ : 0..MaxSlots] : c.i_ < Len(tree[c.module_])}

\* C3: on a tree with N slots in all, an AttributePolicy view with recurse =
\* true and include_root = false yields exactly N elements: every slot of
\* every container once, module-typed slots included, and never the root.
C3_AttributesYieldEverySlotOnce ==
  (view.policy = "Attribute" /\ view.recurse_ /\ ~view.return_module_ /\ IsTree) =>
    \A k \in 1..Len(runs) :
      LET e == runs[k].elems
      IN /\ runs[k].ok
         /\ Len(e) = SlotsFrom(1)
         /\ {e[j].pos[Len(e[j].pos)] : j \in 1..Len(e)} = AllSlots
         /\ \A j \in 1..Len(e) : e[j].pos[Len(e[j].pos)].i_ >= 0

C3_Witness ==
  /\ view.policy = "Attribute" /\ view.recurse_ /\ ~view.return_module_ /\ IsTree
  /\ Len(runs) = 1 /\ Len(runs[1].elems) = 3 /\ Len(tree) = 3

\* C4: two iterations of one view over the unmodified tree produce the same
\* sequence: equal length, equal content, same order, whether or not size()
\* was called in between.
C4_Restartable == Len(runs) >= 2 => \A k \in 2..Len(runs) :
                     runs[k].elems = runs[1].elems /\ runs[k].ok = runs[1].ok

\* the size cache was filled between the two iterations
C4_Witness ==
  /\ Len(runs) = 2 /\ ~runs[1].cached /\ runs[2].cached
  /\ runs[1].ok /\ Len(runs[1].elems) >= 3

\* Every element a loop of the client has dereferenced, finished loops and the
\* running one.
Yielded == {out[j] : j \in 1..Len(out)}
             \cup UNION {{runs[k].elems[j] : j \in 1..Len(runs[k].elems)} : k \in 1..Len(runs)}

\* Pre-order listing of the modules below and including o, one entry per path.
RECURSIVE ModulesPreOrder(_, _)
ModulesPreOrder(o, i) ==
  IF i = -1 THEN <<o>> \o ModulesPreOrder(o, 0)
  ELSE IF i >= Len(tree[o]) THEN <<>>
  ELSE (IF tree[o][i + 1].type = "Module"
        THEN ModulesPreOrder(tree[o][i + 1].val.ref, -1) ELSE <<>>)
       \o ModulesPreOrder(o, i + 1)

\* p comes before q in pre-order: p is a proper prefix of q, or p turns to an
\* earlier slot where the two paths part.
RECURSIVE PathBefore(_, _, _)
PathBefore(p, q, i) ==
  IF i > Len(p) THEN i <= Len(q)
  ELSE IF i > Len(q) THEN FALSE
  ELSE IF p[i].i_ # q[i].i_ THEN p[i].i_ < q[i].i_
  ELSE PathBefore(p, q, i + 1)

IsModulesView(v) == v.policy = "Module" /\ v.recurse_ /\ v.return_module_
IsChildrenView(v) == v.policy = "Module" /\ ~v.recurse_ /\ ~v.return_module_

\* C5: modules() and named_modules() yield the root itself first, exactly
\* once, and then every descendant module once per path in depth-first
\* pre-order: a module comes before the modules nested in it and before its
\* later siblings.
C5_ModulesRootFirstPreOrder ==
  IsModulesView(view) =>
    /\ \A k \in 1..Len(runs) :
         LET e == runs[k].elems
         IN /\ runs[k].ok
            /\ [j \in 1..Len(e) |-> ValueOf(e[j])] =
                 [j \in 1..Len(ModulesPreOrder(Root, -1)) |->
                    ObjectIValue(ModulesPreOrder(Root, -1)[j])]
            /\ e[1].pos = <<[module_ |-> Root, i_ |-> -1]>>
            /\ Cardinality({j \in 1..Len(e) : ValueOf(e[j]) = ObjectIValue(Root)}) = 1
            /\ \A j1, j2 \in 1..Len(e) : j1 < j2 => PathBefore(e[j1].pos, e[j2].pos, 1)
    /\ \A j \in 1..Len(out) : ValueOf(out[j]) = ObjectIValue(ModulesPreOrder(Root, -1)[j])

\* modules() has yielded the root and a module nested two levels down
C5_Witness ==
  /\ IsModulesView(view) /\ Len(runs) = 1
  /\ Len(runs[1].elems) = 3 /\ Len(runs[1].elems[3].pos) = 2
  /\ ValueOf(runs[1].elems[1]) = ObjectIValue(Root)

ModuleSlotsOf(o) ==
  SelectSeq([j \in 1..Len(tree[o]) |-> j - 1], LAMBDA i : tree[o][i + 1].type = "Module")

ChildrenAreRootModuleSlots ==
  IsChildrenView(view) =>
    \A k \in 1..Len(runs) :
      LET e == runs[k].elems
      IN /\ runs[k].ok
         /\ [j \in 1..Len(e) |-> e[j].pos[1].i_] = ModuleSlotsOf(Root)
         /\ \A j \in 1..Len(e) :
              /\ ValueOf(e[j]) = tree[Root][e[j].pos[1].i_ + 1].val
              /\ ValueOf(e[j]) # ObjectIValue(Root)

\* C6 as stated: with recurse = false the stack never holds more than one
\* frame and only slots of the root container are yielded; children() yields
\* the root's module-typed slots in slot order.
C6_NonRecursiveRootSlotsOnly_AsStated ==
  ~view.recurse_ =>
    /\ Len(it.cursors_) <= 1
    /\ \A e \in Yielded :
         Len(e.pos) = 1 /\ e.pos[1].module_ = Root /\ e.pos[1].i_ \in 0..(Len(tree[Root]) - 1)
    /\ ChildrenAreRootModuleSlots

\* C6 (amended): with recurse = false the stack never holds more than one
\* frame and, apart from the root itself where include_root = true, only slots
\* of the root container are yielded; children() and named_children() yield
\* exactly the root's module-typed slots in slot order, never the root and
\* never a grandchild.
C6_NonRecursiveRootSlotsOnly ==
  ~view.recurse_ =>
    /\ Len(it.cursors_) <= 1
    /\ \A e \in Yielded :
         /\ Len(e.pos) = 1 /\ e.pos[1].module_ = Root
         /\ e.pos[1].i_ \in -1..(Len(tree[Root]) - 1)
         /\ e.pos[1].i_ = -1 => view.return_module_
    /\ ChildrenAreRootModuleSlots

\* children() over a root holding two modules, the first with a module of its own
C6_Witness ==
  /\ IsChildrenView(view) /\ Len(runs) = 1 /\ Len(runs[1].elems) = 2
  /\ Len(tree) = 3 /\ \E j \in 1..Len(tree[2]) : tree[2][j].type = "Module"

\* root{a: leaf, b: submodule{c: leaf}}
IsTreeOfC7 ==
  /\ Len(tree) = 2 /\ Len(tree[1]) = 2 /\ Len(tree[2]) = 1
  /\ tree[1][1].name = "a" /\ tree[1][1].type = "Tensor"
  /\ tree[1][2].name = "b" /\ tree[1][2].type = "Module" /\ tree[1][2].val = ObjectIValue(2)
  /\ tree[2][1].name = "c" /\ tree[2][1].type = "Tensor"

IsNamedAttributesRecursive(v) ==
  v.policy = "Attribute" /\ v.named /\ v.recurse_ /\ ~v.return_module_

ElemsOf(r) == [j \in 1..Len(r.elems) |-> r.elems[j].elem]

\* C7 as stated: on root{a: leaf, b: submodule{c: leaf}},
\* named_attributes(recurse = true) yields exactly ("a", leaf_a), ("b.c", leaf_c).
C7_NamedAttributesExample_AsStated ==
  (IsTreeOfC7 /\ IsNamedAttributesRecursive(view)) =>
    \A k \in 1..Len(runs) :
      ElemsOf(runs[k]) = << [name |-> "a", value |-> tree[1][1].val],
                            [name |-> "b.c", value |-> tree[2][1].val] >>

\* C7 (amended): on root{a: leaf, b: submodule{c: leaf}},
\* named_attributes(recurse = true) yields exactly ("a", leaf_a), ("b", the
\* submodule), ("b.c", leaf_c), in that order.
C7_NamedAttributesExample ==
  (IsTreeOfC7 /\ IsNamedAttributesRecursive(view)) =>
    \A k \in 1..Len(runs) :
      /\ runs[k].ok
      /\ ElemsOf(runs[k]) = << [name |-> "a", value |-> tree[1][1].val],
                               [name |-> "b", value |-> ObjectIValue(2)],
                               [name |-> "b.c", value |-> tree[2][1].val] >>

C7_Witness ==
  /\ IsTreeOfC7 /\ IsNamedAttributesRecursive(view)
  /\ Len(runs) = 1 /\ Len(runs[1].elems) = 3

\* The '.'-joined slot names of the frames of a path, bottom frame first.
RECURSIVE DotPath(_, _)
DotPath(pos, n) ==
  IF n = 1 THEN tree[pos[1].module_][pos[1].i_ + 1].name
  ELSE DotPath(pos, n - 1) \o "." \o tree[pos[n].module_][pos[n].i_ + 1].name

RECURSIVE Dots(_, _)
Dots(name, i) ==
  IF i > Len(name) THEN 0
  ELSE (IF SubSeq(name, i, i) = "." THEN 1 ELSE 0) + Dots(name, i + 1)

\* C8: the name of an element a Named view yields is the '.'-joined slot names
\* of the stack frames, bottom to top, at the yield (the bare slot name for a
\* slot of the root, d + 1 fragments at depth d), the empty string for the
\* root yielded through the sentinel, and the value is the one the base policy
\* yields at that position.
C8_NamesAreDottedPaths ==
  view.named =>
    \A e \in Yielded :
      /\ IF e.pos[Len(e.pos)].i_ = -1
         THEN Len(e.pos) = 1 /\ e.elem.name = ""
         ELSE /\ e.elem.name = DotPath(e.pos, Len(e.pos))
              /\ Dots(e.elem.name, 1) + 1 = Len(e.pos)
              /\ Len(e.pos) = 1 => e.elem.name = getAttributeName(Root, e.pos[1].i_)
      /\ e.elem.value = create(view.policy, FALSE, e.pos, cur(e.pos))

\* a named view has yielded the root under "" and a slot two modules down
C8_Witness ==
  /\ view.named /\ view.return_module_ /\ Len(runs) = 1
  /\ \E e \in Yielded : e.elem.name = ""
  /\ \E e \in Yielded : Len(e.pos) = 3 /\ Dots(e.elem.name, 1) = 2

\* The views the queries of Module hand out: the root is included by modules()
\* and named_modules() alone.
IsFacadeView(v) == ~v.return_module_ \/ IsModulesView(v)

EmptyRootYieldsNothing ==
  /\ \A k \in 1..Len(runs) : runs[k].ok /\ runs[k].elems = <<>>
  /\ sizeRet # <<>> => sizeRet[1] = [ok |-> TRUE, n |-> 0]

\* C9 as stated: a container with zero slots yields an empty sequence from
\* every view, modules() included, and size() = 0.
C9_EmptyContainer_AsStated ==
  (numAttributes(Root) = 0 /\ IsFacadeView(view)) => EmptyRootYieldsNothing

\* C9 (amended): a container with zero slots yields an empty sequence and
\* size() = 0 from every view that leaves the root out (children, parameters,
\* buffers, attributes and their named counterparts); modules() and
\* named_modules() yield the container itself and nothing else, and size() = 1.
C9_EmptyContainer ==
  numAttributes(Root) = 0 =>
    /\ ~view.return_module_ => EmptyRootYieldsNothing
    /\ IsModulesView(view) =>
         /\ \A k \in 1..Len(runs) :
              /\ runs[k].ok /\ Len(runs[k].elems) = 1
              /\ ValueOf(runs[k].elems[1]) = ObjectIValue(Root)
         /\ sizeRet # <<>> => sizeRet[1] = [ok |-> TRUE, n |-> 1]

C9_Witness ==
  /\ numAttributes(Root) = 0 /\ view.policy = "Parameter" /\ ~view.return_module_
  /\ Len(runs) = 1 /\ sizeRet # <<>>

\* Every slot value conforms to the slot's declared type, and only tensor-like
\* slots are marked as parameters.
StructurallyValid ==
  \A o \in DOMAIN tree : \A j \in 1..Len(tree[o]) :
    LET s == tree[o][j]
    IN /\ s.type = "Tensor" => s.val.tag = "Tensor"
       /\ s.type = "OptTensor" => s.val.tag \in {"Tensor", "None"}
       /\ s.type = "Int" => s.val.tag = "Int"
       /\ s.type = "Module" => s.val.tag = "Object" /\ s.val.ref \in DOMAIN tree
       /\ s.is_param => s.type \in {"Tensor", "OptTensor"}

\* C10: on a structurally valid tree a slot of a tensor type is accepted by
\* exactly one of ParameterPolicy and BufferPolicy, a slot is accepted by
\* ModulePolicy exactly when its type is a container type, and no slot is
\* accepted by more than one of the three.
C10_PolicyPartition ==
  StructurallyValid =>
    \A o \in DOMAIN tree : \A j \in 1..Len(tree[o]) :
      LET s == tree[o][j]
          m == Policy_valid("Module", o, j - 1, s.val)
          p == Policy_valid("Parameter", o, j - 1, s.val)
          b == Policy_valid("Buffer", o, j - 1, s.val)
      IN /\ s.type = "Tensor" => (p # b)
         /\ m <=> (s.type = "Module")
         /\ ~(m /\ p) /\ ~(m /\ b) /\ ~(p /\ b)

\* a buffer view ran over a tree with a parameter, a buffer and a module slot
C10_Witness ==
  /\ StructurallyValid /\ view.policy = "Buffer" /\ Len(runs) = 1
  /\ \E j \in 1..Len(tree[Root]) : tree[Root][j].type = "Module"
  /\ \E o \in DOMAIN tree : \E j \in 1..Len(tree[o]) : tree[o][j].is_param /\ tree[o][j].type = "Tensor"
  /\ \E o \in DOMAIN tree : \E j \in 1..Len(tree[o]) : ~tree[o][j].is_param /\ tree[o][j].type = "Tensor"

\* ============================================== iterators side by side
\* Two clients, each with an iterator of its own, over one tree.  The views
\* are the ones the queries of Module hand out; the two iterators may come
\* from one view or from two.  The leaves of the tree are parameters and
\* buffers.
TreesIters ==
  UNION {{<<n, ks>> : ks \in KindTrees({"P", "B"}, 1, n, MaxSlotsIters, {})} :
         n \in 1..MaxObjsIters}

FacadeViews ==
  {v \in {slot_list_impl(P, named, Root, recurse, ret_module) :
            P \in Policies, named \in BOOLEAN, recurse \in BOOLEAN, ret_module \in BOOLEAN} :
     IsFacadeView(v)}

\* A client's iterator: the view it is taken from, whether begin() was called,
\* what the client dereferenced, whether the current position was dereferenced,
\* the advances made at the end, and the copy it++ returned if that was the
\* client's last call.
IterOf(v) ==
  [view |-> v, it |-> end(v), live |-> FALSE, out |-> <<>>, got |-> FALSE,
   endAdv |-> 0, ret |-> <<>>]

InitIters ==
  /\ \E t \in TreesIters : tree = BuildTree(t[2], t[1])
  /\ \E v1 \in FacadeViews : \E v2 \in {w \in FacadeViews : w.named = v1.named} :
       /\ view = v1
       /\ iters = <<IterOf(v1), IterOf(v2)>>
  /\ it = end(view)
  /\ pc = "view"
  /\ out = <<>>
  /\ runs = <<>>
  /\ sizeRet = <<>>
  /\ thr = Unused /\ walk = Unused /\ reg = Unused /\ mo = Unused

itersFrame == UNCHANGED <<tree, view, it, pc, out, runs, sizeRet, thr, walk, reg, mo>>

\* auto it = view.begin()
ItBegin(k) ==
  /\ ~iters[k].live
  /\ iters' = [iters EXCEPT ![k].it = begin(iters[k].view), ![k].live = TRUE]
  /\ itersFrame

\* *it, at a position before the end
ItDeref(k) ==
  /\ iters[k].live /\ ~iters[k].got
  /\ NotEqual(iters[k].it, end(iters[k].view))
  /\ DerefOk(iters[k].it)
  /\ iters' = [iters EXCEPT ![k].out = Append(@, Deref(iters[k].it)), ![k].got = TRUE,
                            ![k].ret = <<>>]
  /\ itersFrame

AtEnd(i) == i.cursors_ = <<>>

\* ++it, after the element was read or at the end
ItIncrement(k) ==
  /\ iters[k].live
  /\ IF AtEnd(iters[k].it) THEN iters[k].endAdv < MaxEndAdvances ELSE iters[k].got
  /\ iters' = [iters EXCEPT ![k].it = Increment(iters[k].it), ![k].got = FALSE,
                            ![k].ret = <<>>,
                            ![k].endAdv = IF AtEnd(iters[k].it) THEN @ + 1 ELSE @]
  /\ itersFrame

\* it++, after the element was read or at the end
ItPostIncrement(k) ==
  /\ iters[k].live
  /\ IF AtEnd(iters[k].it) THEN iters[k].endAdv < MaxEndAdvances ELSE iters[k].got
  /\ LET r == PostIncrement(iters[k].it)
     IN iters' = [iters EXCEPT ![k].it = r.it, ![k].ret = <<r.old>>, ![k].got = FALSE,
                               ![k].endAdv = IF AtEnd(iters[k].it) THEN @ + 1 ELSE @]
  /\ itersFrame

NextIters ==
  \E k \in 1..2 : ItBegin(k) \/ ItDeref(k) \/ ItIncrement(k) \/ ItPostIncrement(k)

SpecIters == InitIters /\ [][NextIters]_vars

\* C11: advancing (++it or it++) an iterator that is already in the terminal
\* empty-stack state, any number of times, leaves it there: the stack stays
\* empty, nothing more is dereferenced, the copy it++ returns is terminal too,
\* and the iterator still compares not-unequal to end().
C11_TerminalAdvanceIsNoOp ==
  [][\A k \in 1..2 :
       (AtEnd(iters[k].it) /\ iters'[k].endAdv = iters[k].endAdv + 1) =>
         /\ iters'[k].it.cursors_ = <<>>
         /\ iters'[k].out = iters[k].out
         /\ ~NotEqual(iters'[k].it, end(iters'[k].view))
         /\ ~NotEqual(end(iters'[k].view), iters'[k].it)
         /\ iters'[k].ret # <<>> => iters'[k].ret[1].cursors_ = <<>>]_vars

\* an iterator that yielded two elements was advanced twice at the end, the
\* second time by it++
C11_Witness ==
  /\ iters # Unused
  /\ iters[1].endAdv = MaxEndAdvances /\ Len(iters[1].out) = 2 /\ iters[1].ret # <<>>

\* Two iterators of one iterator type (one policy, Named or not).
SameType(a, b) == a.policy = b.policy /\ a.named = b.named

\* The iterators a client can hold: the two running ones, the copies it++
\* returned, and end() of the two views.
HeldIterators ==
  IF iters = Unused THEN {}
  ELSE UNION {{iters[k].it, end(iters[k].view)} \cup {iters[k].ret[j] : j \in 1..Len(iters[k].ret)} :
              k \in 1..2}

\* C12 as stated: for two iterators a and b of the same policy, a != b is true
\* unless both are in the terminal state; two iterators at non-terminal
\* positions compare unequal.
C12_UnequalUnlessBothTerminal_AsStated ==
  \A a, b \in HeldIterators :
    SameType(a, b) => (NotEqual(a, b) <=> ~(AtEnd(a) /\ AtEnd(b)))

\* C12 (amended): for two iterators a and b of the same policy, a != b is true
\* exactly when one of them is in the terminal state and the other is not: two
\* terminal iterators compare not-unequal, and so do two iterators that are
\* both at non-terminal positions, whatever the positions.
C12_UnequalUnlessBothTerminal ==
  \A a, b \in HeldIterators :
    SameType(a, b) =>
      /\ (AtEnd(a) /\ AtEnd(b)) => ~NotEqual(a, b)
      /\ (AtEnd(a) /\ ~AtEnd(b)) => (NotEqual(a, b) /\ NotEqual(b, a))
      /\ (~AtEnd(a) /\ ~AtEnd(b)) => ~NotEqual(a, b)

\* two iterators of one view stand at two different positions
C12_Witness ==
  /\ iters # Unused
  /\ SameType(iters[1].it, iters[2].it)
  /\ ~AtEnd(iters[1].it) /\ ~AtEnd(iters[2].it)
  /\ iters[1].it.cursors_ # iters[2].it.cursors_

\* ================================================== size() from several threads
\* size() as several threads run it on one view, one step per access to the
\* shared size_: the test of the cache, the write of 0, the read and the write
\* that make up ++*size_, and the final read.  What a thread does between two
\* accesses (begin(), the loop test, *it, ++it) touches only its own iterator
\* and is part of the step before.
TreesThreads ==
  UNION {{<<n, ks>> : ks \in KindTrees({"P", "B"}, 1, n, MaxSlotsThreads, {})} : n \in 1..2}

Threads == 1..MaxThreads

\* A thread: where it is in size(), its loop iterator and the value ++*size_
\* read.  With the threads go the calls made so far, how many of them ran the
\* loop, the outcomes of the finished ones, whether two calls overlapped, and
\* whether a call found the cache filled while another call was still counting.
ThreadOf(v) == [pc |-> "idle", it |-> end(v), tmp |-> 0, called |-> FALSE]

\* (variant: a stored 0 counts as no value, as with a numeric sentinel)
size_cached_ZeroIsEmpty(v) == v.size_ # <<>> /\ v.size_[1] # 0

\* size_ holds a value: the test size() starts with
size_cached(v) == v.size_ # <<>>

InitThreads ==
  /\ \E t \in TreesThreads : tree = BuildTree(t[2], t[1])
  /\ \E P \in Policies, named \in BOOLEAN, recurse \in BOOLEAN, ret_module \in BOOLEAN :
       view = slot_list_impl(P, named, Root, recurse, ret_module)
  /\ thr = [th |-> [t \in Threads |-> ThreadOf(view)], calls |-> 0, loops |-> 0,
            rets |-> {}, overlap |-> FALSE, partial |-> FALSE]
  /\ it = end(view)
  /\ pc = "view"
  /\ out = <<>>
  /\ runs = <<>>
  /\ sizeRet = <<>>
  /\ iters = Unused /\ walk = Unused /\ reg = Unused /\ mo = Unused

threadsFrame == UNCHANGED <<tree, it, pc, out, runs, sizeRet, iters, walk, reg, mo>>

\* The head of the loop of size() of thread t with its iterator at i: the loop
\* is over, *it raises out of size(), or the body's ++*size_ comes next.
LoopHead(th, t, i) ==
  IF ~NotEqual(i, end(view)) THEN [th EXCEPT !.th[t].pc = "ret", !.th[t].it = i]
  ELSE IF ~DerefOk(i)
  THEN [th EXCEPT !.th[t].pc = "idle", !.th[t].it = end(view),
                  !.rets = @ \cup {[ok |-> FALSE, n |-> 0]}]
  ELSE [th EXCEPT !.th[t].pc = "read", !.th[t].it = i]

\* if (!size_): the call starts with the test of the cache
ThrCall(t) ==
  /\ thr.th[t].pc = "idle" /\ thr.calls < MaxCalls
  /\ thr' = [thr EXCEPT !.th[t].pc = IF ~size_cached(view) THEN "zero" ELSE "ret",
                        !.th[t].called = TRUE,
                        !.calls = @ + 1,
                        !.overlap = @ \/ \E u \in Threads \ {t} : thr.th[u].pc # "idle",
                        !.partial = @ \/ (size_cached(view) /\ \E u \in Threads \ {t} :
                                                  thr.th[u].pc \in {"read", "write"})]
  /\ UNCHANGED view
  /\ threadsFrame

\* size_ = size_t(0), then the loop starts
ThrZero(t) ==
  /\ thr.th[t].pc = "zero"
  /\ view' = [view EXCEPT !.size_ = <<0>>]
  /\ thr' = LoopHead([thr EXCEPT !.loops = @ + 1], t, begin(view))
  /\ threadsFrame

\* ++*size_: the read
ThrRead(t) ==
  /\ thr.th[t].pc = "read"
  /\ thr' = [thr EXCEPT !.th[t].pc = "write", !.th[t].tmp = view.size_[1]]
  /\ UNCHANGED view
  /\ threadsFrame

\* ++*size_: the write, then ++it and the loop goes on
ThrWrite(t) ==
  /\ thr.th[t].pc = "write"
  /\ view' = [view EXCEPT !.size_ = <<thr.th[t].tmp + 1>>]
  /\ thr' = LoopHead(thr, t, Increment(thr.th[t].it))
  /\ threadsFrame

\* return *size_
ThrReturn(t) ==
  /\ thr.th[t].pc = "ret"
  /\ thr' = [thr EXCEPT !.th[t].pc = "idle", !.th[t].it = end(view),
                        !.rets = @ \cup {[ok |-> TRUE, n |-> view.size_[1]]}]
  /\ UNCHANGED view
  /\ threadsFrame

NextThreads ==
  \E t \in Threads : ThrCall(t) \/ ThrZero(t) \/ ThrRead(t) \/ ThrWrite(t) \/ ThrReturn(t)

SpecThreads == InitThreads /\ [][NextThreads]_vars

\* The positions a full iteration of view v stops at, by the pre-order listing:
\* the root itself first where the view includes it.
RefPositions(v) ==
  (IF v.return_module_ THEN << <<[module_ |-> v.module_, i_ |-> -1]>> >> ELSE <<>>)
    \o Reference(v.policy, v.recurse_)

\* The number of elements of view v.
TrueCount(v) == Len(RefPositions(v))

AllReturnsTrue == \A r \in thr.rets : r.ok /\ r.n = TrueCount(view)

\* C13 as stated: when two or more threads call size() on one view whose cache
\* is not yet filled, with every read and write of the cache atomic, every
\* call returns the view's true element count under every interleaving.  The
\* calls looked at are those of runs where no call found the cache filled
\* while another call was still counting.
C13_RacingSizeReturnsCount_AsStated ==
  (RootYieldable(view) /\ ~thr.partial) => AllReturnsTrue

\* C13 (amended): when two or more threads call size() on one view whose cache
\* is not yet filled and no call starts while another is running, every call
\* returns the view's true element count.  Calls that overlap can return a
\* partial count and can leave a wrong count in the cache, atomic reads and
\* writes or not.
C13_RacingSizeReturnsCount == (RootYieldable(view) /\ ~thr.overlap) => AllReturnsTrue

\* both threads called size(), one after the other, on a view of one element
\* whose count the first call had to compute
C13_Witness ==
  /\ ~thr.overlap /\ thr.calls = MaxCalls /\ thr.loops = 1
  /\ \A t \in Threads : thr.th[t].called /\ thr.th[t].pc = "idle"
  /\ TrueCount(view) = 1 /\ thr.rets = {[ok |-> TRUE, n |-> 1]}

\* C14: over a sequence of size() calls on one view the counting iteration
\* runs at most once; once the cache holds a value, a computed 0 included,
\* every later call returns the stored value without iterating, so all calls
\* that return a number return the same one.
C14_CountedAtMostOnce ==
  ~thr.overlap =>
    /\ thr.loops <= 1
    /\ Cardinality({r \in thr.rets : r.ok}) <= 1
    /\ \A r \in thr.rets : r.ok => (size_cached(view) /\ r.n = view.size_[1])
    /\ \A t \in Threads : thr.th[t].pc = "ret" => size_cached(view)

\* three calls in a row on a view of no element, counted by the first
C14_Witness ==
  /\ ~thr.overlap /\ thr.calls = MaxCalls /\ thr.loops = 1
  /\ \A t \in Threads : thr.th[t].pc = "idle"
  /\ TrueCount(view) = 0 /\ thr.rets = {[ok |-> TRUE, n |-> 0]}

\* ============================================================ registration
\* register_buffer, register_parameter, register_attribute and register_module
\* on a container of the tree, made by the client of a view between its loops.
TreesRegister ==
  UNION {{<<n, ks>> : ks \in KindTrees({"P", "B"}, 1, n, MaxSlotsRegister, {})} : n \in 1..2}

\* A name no slot of the initial trees has.
FreshName == "z"

\* The declared type of slot j (1-based) of container o.  A module type is the
\* class of the module, and every container is the one object of its class.
SlotType(t, o, j) ==
  IF t[o][j].type = "Module" THEN <<"Module", t[o][j].val.ref>> ELSE <<t[o][j].type>>

\* findAttributeSlot: the place of the slot called name, 0 where there is none
findAttributeSlot(t, o, name) ==
  LET S == {j \in 1..Len(t[o]) : t[o][j].name = name}
  IN IF S = {} THEN 0 ELSE CHOOSE j \in S : TRUE

isSubtypeOf(a, b) == a = b \/ (a = <<"Tensor">> /\ b = <<"OptTensor">>)

\* addOrCheckAttribute(name, ty, is_param): an existing name must have a
\* compatible type and keeps its slot as it is; a new name gets a new slot.
addOrCheckAttribute(t, o, name, ty, is_param) ==
  LET j == findAttributeSlot(t, o, name)
  IN IF j # 0 THEN [ok |-> isSubtypeOf(ty, SlotType(t, o, j)), tree |-> t]
     ELSE [ok |-> TRUE,
           tree |-> [t EXCEPT ![o] = Append(@, [name |-> name, type |-> ty[1],
                                                  is_param |-> is_param, val |-> NoneIValue])]]

\* setAttr(name, v)
setAttr(t, o, name, v) == [t EXCEPT ![o][findAttributeSlot(t, o, name)].val = v]

\* (variant: the value is written before the type is checked)
register_WriteFirst(t, o, name, ty, is_param, v) ==
  LET w == IF findAttributeSlot(t, o, name) # 0 THEN setAttr(t, o, name, v) ELSE t
      r == addOrCheckAttribute(w, o, name, ty, is_param)
  IN IF r.ok THEN [ok |-> TRUE, tree |-> setAttr(r.tree, o, name, v)]
     ELSE [ok |-> FALSE, tree |-> w]

\* The body the four register_ calls share: addOrCheckAttribute, then setAttr.
\* A failing check raises before setAttr runs.
register(t, o, name, ty, is_param, v) ==
  LET r == addOrCheckAttribute(t, o, name, ty, is_param)
  IN IF r.ok THEN [ok |-> TRUE, tree |-> setAttr(r.tree, o, name, v)]
     ELSE [ok |-> FALSE, tree |-> t]

\* A tensor no slot of the initial trees holds.
NewTensor == TensorIValue(99)

\* The arguments of the calls: <<declared type, is_param, value>>.
register_buffer_args == {<< <<"Tensor">>, FALSE, NewTensor >>}
register_parameter_args == {<< <<"Tensor">>, ~is_buffer, NewTensor >> : is_buffer \in BOOLEAN}
register_attribute_args ==
  { << <<"Int">>, FALSE, IntIValue(99) >>,
    << <<"OptTensor">>, TRUE, NoneIValue >>,
    << <<"Tensor">>, FALSE, NoneIValue >> }
register_module_args(o) ==
  {<< <<"Module", m>>, FALSE, ObjectIValue(m) >> : m \in {c \in DOMAIN tree : c > o}}

InitRegister ==
  /\ \E t \in TreesRegister : tree = BuildTree(t[2], t[1])
  /\ \E v \in FacadeViews : view = v
  /\ it = end(view)
  /\ pc = "view"
  /\ out = <<>>
  /\ runs = <<>>
  /\ sizeRet = <<>>
  /\ reg = [n |-> 0, errors |-> 0, last |-> <<>>]
  /\ iters = Unused /\ thr = Unused /\ walk = Unused /\ mo = Unused

\* One register_ call on container o, between two loops of the client.
Register(o, name, args) ==
  /\ pc = "view"
  /\ reg.n < MaxRegs
  /\ LET r == register(tree, o, name, args[1], args[2], args[3])
     IN /\ tree' = r.tree
        /\ reg' = [n |-> reg.n + 1,
                   errors |-> reg.errors + (IF r.ok THEN 0 ELSE 1),
                   last |-> <<[o |-> o, name |-> name, ty |-> args[1], v |-> args[3],
                              slot |-> findAttributeSlot(tree, o, name), ok |-> r.ok]>>]
  /\ UNCHANGED <<view, it, pc, out, runs, sizeRet, iters, thr, walk, mo>>

NamesAt(o) == {tree[o][j].name : j \in 1..Len(tree[o])} \cup {FreshName}

RegisterBuffer ==
  \E o \in DOMAIN tree : \E name \in NamesAt(o) : \E a \in register_buffer_args :
    Register(o, name, a)
RegisterParameter ==
  \E o \in DOMAIN tree : \E name \in NamesAt(o) : \E a \in register_parameter_args :
    Register(o, name, a)
RegisterAttribute ==
  \E o \in DOMAIN tree : \E name \in NamesAt(o) : \E a \in register_attribute_args :
    Register(o, name, a)
RegisterModule ==
  \E o \in DOMAIN tree : \E name \in NamesAt(o) : \E a \in register_module_args(o) :
    Register(o, name, a)

\* for (const auto& x : view) { ... }: one whole loop of the client, from
\* begin() to end() or to the *it that raises
RECURSIVE RunLoop(_, _, _)
RunLoop(v, i, acc) ==
  IF ~NotEqual(i, end(v)) THEN [elems |-> acc, ok |-> TRUE, cached |-> v.size_ # <<>>]
  ELSE IF ~DerefOk(i) THEN [elems |-> acc, ok |-> FALSE, cached |-> v.size_ # <<>>]
  ELSE RunLoop(v, Increment(i), Append(acc, [pos |-> i.cursors_, elem |-> Deref(i)]))

Traverse ==
  /\ pc = "view"
  /\ Len(runs) < MaxTraversals
  /\ runs' = Append(runs, RunLoop(view, begin(view), <<>>))
  /\ UNCHANGED <<tree, view, it, pc, out, sizeRet>>
  /\ UNCHANGED otherVars

NextRegister ==
  \/ Traverse
  \/ RegisterBuffer \/ RegisterParameter \/ RegisterAttribute \/ RegisterModule

SpecRegister == InitRegister /\ [][NextRegister]_vars

\* The step is a register_ call.
IsRegisterStep == reg'.n = reg.n + 1

\* The call of the step names an existing slot whose declared type the type
\* given is not compatible with.
CallIsIncompatible ==
  LET c == reg'.last[1]
  IN c.slot # 0 /\ ~isSubtypeOf(c.ty, SlotType(tree, c.o, c.slot))

\* C15: registering (register_buffer, register_parameter, register_attribute,
\* register_module) a name that already exists with an incompatible declared
\* type fails at registration time, before the slot value is written: slot
\* count, slot types, classifications and slot values are as before the call.
\* The error comes out of register_ calls only, never out of a loop over a view.
C15_FailedRegistrationChangesNothing ==
  [][/\ (IsRegisterStep /\ CallIsIncompatible) => (~reg'.last[1].ok /\ tree' = tree)
     /\ (IsRegisterStep /\ ~reg'.last[1].ok) => (CallIsIncompatible /\ tree' = tree)
     /\ reg'.errors # reg.errors => (IsRegisterStep /\ runs' = runs)
     /\ runs' # runs => reg' = reg]_vars

\* register_module on the name of a tensor slot failed, and the client looped
\* over its view
C15_Witness ==
  /\ reg # Unused /\ reg.last # <<>>
  /\ ~reg.last[1].ok /\ reg.last[1].ty[1] = "Module" /\ reg.last[1].slot # 0
  /\ reg.errors = 1 /\ Len(runs) = 1

\* ===================================================== the iterator from inside
\* One iterator between the statements of its constructor and of operator++:
\* every call of next() is a step, and where next() pops a frame the pop and
\* the increment of the frame below are two steps.  phase tells where the
\* iterator is: "skip" inside while_not_valid_next, "popped" inside next()
\* after pop_back, "stop" at a position handed back to the caller; advanced
\* tells whether next() was called at all.
InitSteps ==
  /\ \E t \in Trees : tree = BuildTree(t[2], t[1])
  /\ \E P \in Policies, named \in BOOLEAN, recurse \in BOOLEAN, ret_module \in BOOLEAN :
       view = slot_list_impl(P, named, Root, recurse, ret_module)
  /\ walk = [cursors_ |-> <<SlotCursor(view.module_, IF view.return_module_ THEN -1 ELSE 0)>>,
             phase |-> "skip", advanced |-> FALSE]
  /\ it = end(view)
  /\ pc = "view"
  /\ out = <<>>
  /\ runs = <<>>
  /\ sizeRet = <<>>
  /\ iters = Unused /\ thr = Unused /\ reg = Unused /\ mo = Unused

stepsFrame == UNCHANGED <<tree, view, it, pc, out, runs, sizeRet, iters, thr, reg, mo>>

\* The top frame is past the last slot of its container: next() pops it.
Exhausted(cursors) ==
  ~return_module(cursors) /\ top(cursors).i_ >= numAttributes(top(cursors).module_)

\* One call of next(), up to its return or up to its pop_back.
CallNext(after) ==
  IF Exhausted(walk.cursors_)
  THEN walk' = [walk EXCEPT !.cursors_ = pop_back(@), !.phase = "popped", !.advanced = TRUE]
  ELSE walk' = [walk EXCEPT !.cursors_ = next(@, view.recurse_), !.phase = after,
                            !.advanced = TRUE]

\* while (!cursors_.empty() && !return_module() && !valid()) next();
SkipNext ==
  /\ walk.phase = "skip"
  /\ walk.cursors_ # <<>> /\ ~return_module(walk.cursors_) /\ ~valid(view.policy, walk.cursors_)
  /\ CallNext("skip")
  /\ stepsFrame

\* the loop of while_not_valid_next is over: the constructor or operator++ returns
SkipDone ==
  /\ walk.phase = "skip"
  /\ ~(walk.cursors_ # <<>> /\ ~return_module(walk.cursors_)
         /\ ~valid(view.policy, walk.cursors_))
  /\ walk' = [walk EXCEPT !.phase = "stop"]
  /\ stepsFrame

\* (variant: the frame below is left where it was after the pop_back)
AfterPop_NoIncrement ==
  /\ walk.phase = "popped"
  /\ walk' = [walk EXCEPT !.phase = "skip"]
  /\ stepsFrame

\* if (!cursors_.empty()) ++top().i_; after the pop_back of next()
AfterPop ==
  /\ walk.phase = "popped"
  /\ walk' = [walk EXCEPT !.cursors_ = IF @ # <<>> THEN IncTop(@) ELSE @, !.phase = "skip"]
  /\ stepsFrame

\* operator++ at a position before the end: the next() of next_valid
AdvanceNext ==
  /\ walk.phase = "stop"
  /\ walk.cursors_ # <<>>
  /\ CallNext("skip")
  /\ stepsFrame

NextSteps == SkipNext \/ SkipDone \/ AfterPop \/ AdvanceNext

SpecSteps == InitSteps /\ [][NextSteps]_vars

Frames == walk.cursors_

\* C16: in every reachable iterator state a frame with index -1 can only be
\* the bottom-most frame and only while the stack has exactly one frame; it
\* exists only when include_root was true at construction, and once next() has
\* run no frame has index -1 again: frames are pushed with index 0 only and
\* the index of a frame only increases.
C16_SentinelOnlyAtBottom ==
  /\ [](\A j \in 1..Len(Frames) :
          /\ Frames[j].i_ >= -1
          /\ Frames[j].i_ = -1 =>
               (j = 1 /\ Len(Frames) = 1 /\ view.return_module_ /\ ~walk.advanced))
  /\ [][/\ \A j \in 1..Len(Frames) :
             j <= Len(walk'.cursors_) =>
               (walk'.cursors_[j].module_ = Frames[j].module_
                  /\ walk'.cursors_[j].i_ >= Frames[j].i_)
        /\ Len(walk'.cursors_) <= Len(Frames) + 1
        /\ Len(walk'.cursors_) = Len(Frames) + 1 => walk'.cursors_[Len(Frames) + 1].i_ = 0]_vars

\* the iterator of modules() left the sentinel and stands two modules down
C16_Witness ==
  /\ walk # Unused /\ view.return_module_ /\ walk.advanced
  /\ Len(Frames) = 3 /\ walk.phase = "stop"

\* The depths at which container o hangs below the root, one per path.
RECURSIVE Depths(_)
Depths(o) ==
  IF o = Root THEN {0}
  ELSE UNION {{d + 1 : d \in Depths(p)} :
              p \in {q \in 1..(o - 1) : \E j \in 1..Len(tree[q]) :
                       tree[q][j].type = "Module" /\ tree[q][j].val.ref = o}}

\* C17: in every reachable iterator state the stack is a path in the tree:
\* every non-top frame has an index in [0, slot count) that denotes a
\* module-typed slot whose value is the container of the next frame up, the
\* stack length is the nesting depth of the top container plus one, and the
\* top frame's index never exceeds its container's slot count; it equals the
\* slot count only inside next_valid or the constructor, never at a position
\* returned to the caller.
C17_StackIsPath ==
  Frames # <<>> =>
    /\ Frames[1].module_ = Root
    /\ \A j \in 1..(Len(Frames) - 1) :
         /\ Frames[j].i_ \in 0..(numAttributes(Frames[j].module_) - 1)
         /\ is_module(getAttribute(Frames[j].module_, Frames[j].i_))
         /\ getSlot(Frames[j].module_, Frames[j].i_) = ObjectIValue(Frames[j + 1].module_)
    /\ (Len(Frames) - 1) \in Depths(top(Frames).module_)
    /\ top(Frames).i_ <= numAttributes(top(Frames).module_)
    /\ top(Frames).i_ = numAttributes(top(Frames).module_) => walk.phase = "skip"
    /\ ~view.recurse_ => Len(Frames) = 1

\* a parameter iterator is inside its skip loop with the top frame, two
\* modules down, past the last slot
C17_Witness ==
  /\ walk # Unused /\ view.policy = "Parameter" /\ Len(Frames) = 3
  /\ top(Frames).i_ = numAttributes(top(Frames).module_) /\ walk.phase = "skip"

\* C18: valid and create of each policy agree: at every non-sentinel position
\* where a parameter or a buffer iterator stops the slot holds a tensor, at
\* every position where a module iterator stops the value is a container
\* object, so dereferencing a yielded position never raises in create,
\* whatever values the slots were given.
C18_ValidAndCreateAgree ==
  (pc = "at" /\ NotEqual(it, end(view)) /\ ~return_module(it.cursors_)) =>
    /\ view.policy \in {"Parameter", "Buffer"} => isTensor(cur(it.cursors_))
    /\ view.policy = "Module" => isObject(cur(it.cursors_))
    /\ DerefOk(it)

\* What a loop over view v yields when nothing else runs: the element at each
\* position of the pre-order listing, in order.
AloneSequence(v) ==
  LET ref == RefPositions(v)
  IN [j \in 1..Len(ref) |-> create(v.policy, v.named, ref[j], cur(ref[j]))]

\* Where an iterator over view v stands after n elements were read and, if
\* ~got, the n-th was stepped over.
AlonePosition(v, n, got) ==
  LET ref == RefPositions(v)
  IN IF got THEN ref[n]
     ELSE IF n < Len(ref) THEN ref[n + 1] ELSE <<>>

\* C19: begin(), dereference and advance leave unchanged the tree, the view's
\* root handle, flags and size cache, and the stack of every other iterator;
\* under any interleaving of the steps of two iterators of one view or of two
\* views over one tree, each iterator yields the sequence it yields alone.
C19_IteratorsIndependent ==
  /\ [](\A k \in 1..2 :
          iters[k].live =>
            /\ Len(iters[k].out) <= TrueCount(iters[k].view)
            /\ iters[k].out = SubSeq(AloneSequence(iters[k].view), 1, Len(iters[k].out))
            /\ iters[k].it.cursors_ =
                 AlonePosition(iters[k].view, Len(iters[k].out), iters[k].got))
  /\ [][/\ tree' = tree
        /\ view' = view
        /\ \A k \in 1..2 : iters'[k].view = iters[k].view
        /\ \E k \in 1..2 : \A j \in (1..2) \ {k} : iters'[j] = iters[j]]_vars

\* a parameter iterator and a buffer iterator over one tree, interleaved: the
\* first has read two elements and stands at the end, the second has read one
\* and has more to come
C19_Witness ==
  /\ iters # Unused
  /\ iters[1].view # iters[2].view
  /\ Len(iters[1].out) = 2 /\ AtEnd(iters[1].it)
  /\ Len(iters[2].out) = 1 /\ iters[2].got /\ TrueCount(iters[2].view) = 2

\* ======================================================== c10::MaybeOwned<T>
\* MaybeOwned objects in MaxMaybeOwned places of storage.  A place holds no
\* object before its constructor and after its destructor ran.  borrow_ is a
\* pointer: null, the address of a T of the client, or the address of the own_
\* member of a MaybeOwned (what borrowed(*m) takes of an owned m).  own_ is the
\* storage of the union's T: whether a T is constructed there, and its value.
\* borrow_ and own_ share storage; the member that is not in use reads as
\* Null / NoT.
Places == 1..MaxMaybeOwned
MovedFrom == 0
Values == 1..MaxValues

Null == [kind |-> "null", at |-> 0]
Original(k) == [kind |-> "T", at |-> k]
OwnOf(m) == [kind |-> "own_", at |-> m]

NoT == [live |-> FALSE, val |-> MovedFrom]
T(v) == [live |-> TRUE, val |-> v]

\* faults are the misuses of the T storage an operation made on its way;
\* Becomes moves them into mo.faults.
NoObject ==
  [alive |-> FALSE, isBorrowed_ |-> TRUE, borrow_ |-> Null, own_ |-> NoT, faults |-> {}]
Borrowing(p) ==
  [alive |-> TRUE, isBorrowed_ |-> TRUE, borrow_ |-> p, own_ |-> NoT, faults |-> {}]
Owning(t) ==
  [alive |-> TRUE, isBorrowed_ |-> FALSE, borrow_ |-> Null, own_ |-> t, faults |-> {}]

\* new (&own_) T(v)
construct_own(x, v) ==
  [x EXCEPT !.own_ = T(v), !.borrow_ = Null,
            !.faults = @ \cup (IF x.own_.live THEN {"T constructed over a live T"} ELSE {})]

\* own_.~T()
destroy_own(x) ==
  [x EXCEPT !.own_ = NoT,
            !.faults = @ \cup (IF x.own_.live THEN {} ELSE {"T destroyed while not alive"})]

\* own_ = v
assign_own(x, v) ==
  [x EXCEPT !.own_.val = v,
            !.faults = @ \cup (IF x.own_.live THEN {} ELSE {"T assigned to while not alive"})]

\* borrow_ = p: the pointer takes the storage, a T that lived there is gone
\* without its destructor
assign_borrow(x, p) ==
  [x EXCEPT !.borrow_ = p, !.own_ = NoT,
            !.faults = @ \cup (IF x.own_.live THEN {"live T overwritten, never destroyed"} ELSE {})]

\* What std::move leaves in a T of value v: a valid T, the moved-from one for
\* a T like Tensor, the same one for a T that moves by copying.
AfterMove(v) == {MovedFrom, v}

\* explicit MaybeOwned()
MaybeOwned_default == Borrowing(Null)
\* borrowed(const T& t)
MaybeOwned_borrowed(p) == Borrowing(p)
\* owned(T&& t)
MaybeOwned_owned(v) == Owning(T(v))

\* (variant: the copy of an owned rhs borrows rhs's T)
MaybeOwned_copy_BorrowsOwned(s) ==
  IF mo.objs[s].isBorrowed_ THEN Borrowing(mo.objs[s].borrow_) ELSE Borrowing(OwnOf(s))

\* MaybeOwned(const MaybeOwned& rhs), rhs the object at place s
MaybeOwned_copy(s) ==
  LET rhs == mo.objs[s]
  IN IF rhs.isBorrowed_ THEN Borrowing(rhs.borrow_) ELSE Owning(T(rhs.own_.val))

\* MaybeOwned(MaybeOwned&& rhs): the new object; rhs keeps a T that was moved from
MaybeOwned_move(s) ==
  LET rhs == mo.objs[s]
  IN IF rhs.isBorrowed_ THEN Borrowing(rhs.borrow_) ELSE Owning(T(rhs.own_.val))

\* (variant: an owning destination takes the pointer without own_.~T())
copy_assign_NoDestroy(d, s) ==
  LET this == mo.objs[d]
      rhs == mo.objs[s]
  IN IF ~this.isBorrowed_
     THEN IF rhs.isBorrowed_
          THEN [assign_borrow(this, rhs.borrow_) EXCEPT !.isBorrowed_ = TRUE]
          ELSE assign_own(this, rhs.own_.val)
     ELSE IF rhs.isBorrowed_
          THEN assign_borrow(this, rhs.borrow_)
          ELSE [construct_own(this, rhs.own_.val) EXCEPT !.isBorrowed_ = FALSE]

\* operator=(const MaybeOwned& rhs) on the object at place d
copy_assign(d, s) ==
  LET this == mo.objs[d]
      rhs == mo.objs[s]
  IN IF ~this.isBorrowed_
     THEN IF rhs.isBorrowed_
          THEN [assign_borrow(destroy_own(this), rhs.borrow_) EXCEPT !.isBorrowed_ = TRUE]
          ELSE assign_own(this, rhs.own_.val)
     ELSE IF rhs.isBorrowed_
          THEN assign_borrow(this, rhs.borrow_)
          ELSE [construct_own(this, rhs.own_.val) EXCEPT !.isBorrowed_ = FALSE]

\* operator=(MaybeOwned&& rhs) on the object at place d: the branches of the
\* copy assignment, with rhs's T moved from
move_assign(d, s) ==
  LET this == mo.objs[d]
      rhs == mo.objs[s]
  IN IF ~this.isBorrowed_
     THEN IF rhs.isBorrowed_
          THEN [assign_borrow(destroy_own(this), rhs.borrow_) EXCEPT !.isBorrowed_ = TRUE]
          ELSE assign_own(this, rhs.own_.val)
     ELSE IF rhs.isBorrowed_
          THEN assign_borrow(this, rhs.borrow_)
          ELSE [construct_own(this, rhs.own_.val) EXCEPT !.isBorrowed_ = FALSE]

\* ~MaybeOwned() of the object at place d: what is left in the storage
MaybeOwned_dtor(d) ==
  LET this == mo.objs[d]
  IN [(IF ~this.isBorrowed_ THEN destroy_own(this) ELSE this)
        EXCEPT !.alive = FALSE, !.isBorrowed_ = TRUE, !.borrow_ = Null]

InitMaybeOwned ==
  /\ mo = [objs |-> [m \in Places |-> NoObject], last |-> [op |-> "none", dst |-> 0, src |-> 0],
           faults |-> {}]
  /\ tree = <<>> /\ view = Unused /\ it = Unused /\ pc = "view"
  /\ out = <<>> /\ runs = <<>> /\ sizeRet = <<>>
  /\ iters = Unused /\ thr = Unused /\ walk = Unused /\ reg = Unused

moFrame == UNCHANGED <<tree, view, it, pc, out, runs, sizeRet, iters, thr, walk, reg>>

Alive(m) == mo.objs[m].alive

\* p points at a T that exists
Valid(p) ==
  \/ p.kind = "T"
  \/ p.kind = "own_" /\ Alive(p.at) /\ ~mo.objs[p.at].isBorrowed_ /\ mo.objs[p.at].own_.live

\* The T that *m denotes, as an address.
Star(m) == IF mo.objs[m].isBorrowed_ THEN mo.objs[m].borrow_ ELSE OwnOf(m)

\* The object at place d becomes obj by operation op with argument place s.
Becomes(op, d, s, obj) ==
  mo' = [mo EXCEPT !.objs[d] = [obj EXCEPT !.faults = {}],
                   !.faults = @ \cup obj.faults,
                   !.last = [op |-> op, dst |-> d, src |-> s]]

\* The same for an operation that moves from rhs: an owned rhs keeps its T,
\* moved from; in x = std::move(x) that T is x's own.
BecomesMoving(op, d, s, obj) ==
  \E left \in AfterMove(mo.objs[s].own_.val) :
    mo' = [mo EXCEPT
             !.objs = [m \in Places |->
                         IF m = d
                         THEN (IF d = s /\ ~obj.isBorrowed_
                               THEN [obj EXCEPT !.own_.val = left, !.faults = {}]
                               ELSE [obj EXCEPT !.faults = {}])
                         ELSE IF m = s /\ ~mo.objs[s].isBorrowed_
                         THEN [mo.objs[s] EXCEPT !.own_.val = left]
                         ELSE mo.objs[m]],
             !.faults = @ \cup obj.faults,
             !.last = [op |-> op, dst |-> d, src |-> s]]

\* MaybeOwned<T> x;
Default(d) ==
  /\ ~Alive(d)
  /\ Becomes("default", d, 0, MaybeOwned_default)
  /\ moFrame

\* auto x = MaybeOwned<T>::borrowed(t), t a T of the client
Borrowed(d) ==
  /\ ~Alive(d)
  /\ \E k \in 1..MaxOriginals : Becomes("borrowed", d, 0, MaybeOwned_borrowed(Original(k)))
  /\ moFrame

\* auto x = MaybeOwned<T>::borrowed(*m)
BorrowedStar(d) ==
  /\ ~Alive(d)
  /\ \E m \in Places :
       /\ Alive(m) /\ Valid(Star(m))
       /\ Becomes("borrowed", d, 0, MaybeOwned_borrowed(Star(m)))
  /\ moFrame

\* auto x = MaybeOwned<T>::owned(T(v))
Owned(d) ==
  /\ ~Alive(d)
  /\ \E v \in Values : Becomes("owned", d, 0, MaybeOwned_owned(v))
  /\ moFrame

\* MaybeOwned<T> x(rhs)
CopyConstruct(d) ==
  /\ ~Alive(d)
  /\ \E s \in Places : Alive(s) /\ Becomes("copy", d, s, MaybeOwned_copy(s))
  /\ moFrame

\* MaybeOwned<T> x(std::move(rhs))
MoveConstruct(d) ==
  /\ ~Alive(d)
  /\ \E s \in Places : Alive(s) /\ BecomesMoving("move", d, s, MaybeOwned_move(s))
  /\ moFrame

\* x = rhs, x = x included
CopyAssign(d) ==
  /\ Alive(d)
  /\ \E s \in Places : Alive(s) /\ Becomes("copy_assign", d, s, copy_assign(d, s))
  /\ moFrame

\* x = std::move(rhs), x = std::move(x) included
MoveAssign(d) ==
  /\ Alive(d)
  /\ \E s \in Places : Alive(s) /\ BecomesMoving("move_assign", d, s, move_assign(d, s))
  /\ moFrame

\* ~MaybeOwned()
Destroy(d) ==
  /\ Alive(d)
  /\ Becomes("destroy", d, 0, MaybeOwned_dtor(d))
  /\ moFrame

NextMaybeOwned ==
  \E d \in Places :
    \/ Default(d) \/ Borrowed(d) \/ BorrowedStar(d) \/ Owned(d)
    \/ CopyConstruct(d) \/ MoveConstruct(d) \/ CopyAssign(d) \/ MoveAssign(d)
    \/ Destroy(d)

SpecMaybeOwned == InitMaybeOwned /\ [][NextMaybeOwned]_vars

CopyMoveOps == {"copy", "move", "copy_assign", "move_assign"}

\* C20: after copy construction, copy assignment, move construction or move
\* assignment from rhs, whatever the destination and rhs were before, the
\* destination is borrowed exactly when rhs is borrowed; a borrowed
\* destination holds the pointer rhs holds (the original, never rhs itself),
\* and an owned destination holds a T of its own with rhs's value while rhs
\* still holds its T.
C20_CopyMovePreservesBorrowedness ==
  [][mo'.last.op \in CopyMoveOps =>
       LET d == mo'.last.dst
           s == mo'.last.src
           rhs == mo.objs[s]
           rhsAfter == mo'.objs[s]
           dst == mo'.objs[d]
       IN /\ dst.alive /\ rhsAfter.alive
          /\ dst.isBorrowed_ <=> rhs.isBorrowed_
          /\ dst.isBorrowed_ <=> rhsAfter.isBorrowed_
          /\ rhs.isBorrowed_ => (dst.borrow_ = rhs.borrow_ /\ ~dst.own_.live)
          /\ ~rhs.isBorrowed_ =>
               /\ dst.own_.live /\ rhsAfter.own_.live
               /\ d # s => dst.own_.val = rhs.own_.val
               /\ (d # s /\ mo'.last.op \in {"copy", "copy_assign"}) => rhsAfter = rhs]_vars

\* x = std::move(rhs) just ran with an owned rhs: x owns a T with a value,
\* rhs owns the T that was moved from, and a third object still borrows
\* through a pointer it copied from a borrow
C20_Witness ==
  /\ mo # Unused
  /\ mo.last.op = "move_assign" /\ mo.last.dst # mo.last.src
  /\ ~mo.objs[mo.last.dst].isBorrowed_ /\ mo.objs[mo.last.dst].own_.val \in Values
  /\ ~mo.objs[mo.last.src].isBorrowed_ /\ mo.objs[mo.last.src].own_.val = MovedFrom
  /\ \E m \in Places : Alive(m) /\ mo.objs[m].isBorrowed_ /\ mo.objs[m].borrow_.kind = "T"

\* ==================================================== the iterator runs on
\* The constructor and operator++ are sequential code: a call that has begun
\* takes its next step.  The client of a loop keeps advancing until the
\* iterator compares equal to end().
InternalStep == SkipNext \/ SkipDone \/ AfterPop

SpecStepsFair == SpecSteps /\ WF_vars(InternalStep) /\ WF_vars(AdvanceNext)

Terminal == walk.cursors_ = <<>> /\ walk.phase = "stop"

\* C21: on every finite acyclic module tree, for every policy, recurse flag
\* and include_root flag, the construction of an iterator completes and every
\* advance completes (the skip loop takes finitely many steps), and advancing
\* again and again from begin() reaches the terminal empty-stack state and
\* stays there, so a loop over a view and size() terminate.
C21_IterationTerminates ==
  /\ (walk.phase # "stop") ~> (walk.phase = "stop")
  /\ <>[]Terminal

\* a recursive modules() iterator over three nested containers has been
\* advanced to the terminal state
C21_Witness ==
  /\ walk # Unused /\ Terminal /\ walk.advanced
  /\ view.recurse_ /\ view.return_module_ /\ Len(tree) = 3
  /\ \E o \in DOMAIN tree : o # Root /\ \E j \in 1..Len(tree[o]) : tree[o][j].type = "Module"

\* ============================================ a view that outlives a registration
\* A client keeps one view while slots are registered on the tree, and calls
\* size() and loops over the view before and after.  Each size() call and each
\* loop is kept with its outcome (for a loop the number of elements yielded)
\* and the number of registrations made before it; a size() call also with the
\* number of elements the view had at that moment.  The leaves of the tree are
\* parameters before the registrations add slots of the other kinds.
TreesStale ==
  UNION {{<<n, ks>> : ks \in KindTrees({"P"}, 1, n, MaxSlotsStale, {})} : n \in 1..2}

InitStale ==
  /\ \E t \in TreesStale : tree = BuildTree(t[2], t[1])
  /\ \E v \in FacadeViews : view = v
  /\ it = end(view)
  /\ pc = "view"
  /\ out = <<>>
  /\ runs = <<>>
  /\ sizeRet = <<>>
  /\ reg = [n |-> 0, errors |-> 0, last |-> <<>>]
  /\ iters = Unused /\ thr = Unused /\ walk = Unused /\ mo = Unused

\* view.size()
SizeCall ==
  /\ pc = "view"
  /\ Len(sizeRet) + Len(runs) < MaxLooks
  /\ LET r == size(view)
     IN /\ view' = [view EXCEPT !.size_ = r.size_]
        /\ sizeRet' = Append(sizeRet, [ok |-> r.ret.ok, n |-> r.ret.n, regs |-> reg.n,
                                       count |-> TrueCount(view),
                                       cached |-> size_cached(view)])
  /\ UNCHANGED <<tree, it, pc, out, runs>>
  /\ UNCHANGED otherVars

\* for (const auto& x : view) { ... }
Loop ==
  /\ pc = "view"
  /\ Len(sizeRet) + Len(runs) < MaxLooks
  /\ LET r == RunLoop(view, begin(view), <<>>)
     IN runs' = Append(runs, [n |-> Len(r.elems), ok |-> r.ok, regs |-> reg.n])
  /\ UNCHANGED <<tree, view, it, pc, out, sizeRet>>
  /\ UNCHANGED otherVars

NextStale ==
  \/ SizeCall \/ Loop
  \/ RegisterBuffer \/ RegisterParameter \/ RegisterAttribute \/ RegisterModule

SpecStale == InitStale /\ [][NextStale]_vars

\* The views whose size the constructor takes from the root's slot count.
CachedAtConstruction(v) == ~v.recurse_ /\ ~v.return_module_ /\ all_slots(v.policy)

\* C22: the size cache of attributes(false) / named_attributes(false) is
\* filled at construction with the root's slot count of that moment, the cache
\* of every other view by its first size() call; once filled it is never
\* recomputed, so after a registration size() on the existing view keeps
\* returning the old number while a fresh loop over the view yields the new
\* number of elements.
C22_SizeCacheGoesStale ==
  /\ (reg.n = 0 /\ sizeRet = <<>>) =>
       view.size_ = (IF CachedAtConstruction(view) THEN <<Len(tree[Root])>> ELSE <<>>)
  /\ CachedAtConstruction(view) => view.size_ # <<>>
  /\ \A j \in 1..Len(sizeRet) :
       /\ sizeRet[j].cached <=> (j > 1 \/ CachedAtConstruction(view))
       /\ (~sizeRet[j].cached /\ sizeRet[j].ok) => sizeRet[j].n = sizeRet[j].count
       /\ sizeRet[j].cached => sizeRet[j].ok
       /\ view.size_ = <<sizeRet[j].n>>
  /\ \A j \in 1..Len(runs) :
       (runs[j].ok /\ runs[j].regs = reg.n) => runs[j].n = TrueCount(view)

\* after a registration that added an element, size() on the old view returned
\* the old number and a loop over the same view yielded one element more
C22_Witness ==
  /\ reg # Unused /\ reg.n = 1
  /\ \E j \in 1..Len(sizeRet) : \E k \in 1..Len(runs) :
       /\ sizeRet[j].regs = 1 /\ sizeRet[j].cached
       /\ runs[k].regs = 1 /\ runs[k].ok
       /\ runs[k].n = sizeRet[j].n + 1
       /\ sizeRet[j].count = sizeRet[j].n + 1

\* C23: over any sequence of constructions, copy and move assignments
\* (self-assignment included) and destructions, the T in own_ is alive exactly
\* when isBorrowed_ is false: every T constructed in place is destroyed once,
\* on the switch to borrowed or in the destructor, so none is left in the
\* storage of a destroyed object; no T is destroyed or assigned to while the
\* object borrows, and none is constructed over a live one.
C23_OwnedAliveIffNotBorrowed ==
  mo # Unused =>
    /\ mo.faults = {}
    /\ \A m \in Places :
         /\ Alive(m) => (mo.objs[m].own_.live <=> ~mo.objs[m].isBorrowed_)
         /\ ~Alive(m) => ~mo.objs[m].own_.live

\* a destructor just ran; an owning object whose T another object borrowed has
\* been destroyed, the borrower is still there, and a third object owns a T
\* that was moved from
C23_Witness ==
  /\ mo # Unused
  /\ mo.last.op = "destroy"
  /\ \E m \in Places : Alive(m) /\ mo.objs[m].isBorrowed_ /\ mo.objs[m].borrow_.kind = "own_"
                         /\ ~Alive(mo.objs[m].borrow_.at)
  /\ \E m \in Places : Alive(m) /\ ~mo.objs[m].isBorrowed_ /\ mo.objs[m].own_.val = MovedFrom
====
